---- MODULE Spec2Model ----
(***************************************************************************)
(* Model of generation_two/build.py: the release-packaging workflow.       *)
(*                                                                         *)
(* The filesystem is a set of paths; a path is the sequence of its         *)
(* components below PROJECT_ROOT (PROJECT_ROOT itself is the empty         *)
(* sequence and always exists).  SCRIPT_DIR is the directory               *)
(* PROJECT_ROOT/generation_two.  External tools (pip, PyInstaller,         *)
(* setup.py sdist, py2dsc-deb, stdeb) are not part of the repository: each *)
(* invocation draws its outcome from a small set ("ok": exit 0 and the     *)
(* output is deposited, "empty": exit 0 without output, "fail": non-zero   *)
(* exit).  Environment queries (import PyInstaller, shutil.which) are      *)
(* answered nondeterministically at the moment the code asks.              *)
(***************************************************************************)
EXTENDS Integers, Sequences, FiniteSets, TLC

VARIABLES
    platform,        \* sys.platform, a sequence of characters
    argv,            \* sys.argv, argv[1] is the script name
    fs,              \* the set of existing paths (files and directories)
    run,             \* which consecutive run of main() this is
    mpc,             \* position in main()
    pc,              \* position in the build procedure main() called
    err,             \* exception that left main(), "none" if none
    calls,           \* per build procedure: invocations in this run
    invoked,         \* run_command has started an external command in this run
    last,            \* the latest run_command call of the running build
                     \* procedure: command, check, exit code
    toolsOk,         \* every external tool of this run produced its output
    strategies,      \* conversion strategies attempted by this build_linux_deb
    cleanup_setup,   \* local of build_linux_deb
    py2dsc_deb_cmd,  \* local of build_linux_deb (TRUE: a path, FALSE: None)
    out,             \* the last status line printed
    dirtyStart       \* stale output existed when this run of main() began

vars == <<platform, argv, fs, run, mpc, pc, err, calls, invoked, last, toolsOk,
          strategies, cleanup_setup, py2dsc_deb_cmd, out, dirtyStart>>

----------------------------------------------------------------------------
(* Bounds *)

MaxArgs == 2
MaxRuns == 2

----------------------------------------------------------------------------
(* Strings, as the code inspects them *)

WIN32  == <<"w", "i", "n", "3", "2">>
LINUX  == <<"l", "i", "n", "u", "x">>
DARWIN == <<"d", "a", "r", "w", "i", "n">>
CYGWIN == <<"c", "y", "g", "w", "i", "n">>

Platforms == {WIN32, LINUX, DARWIN, CYGWIN}

Flags == {"--exe", "--deb", "--dmg", "--all"}

Range(s) == {s[i] : i \in DOMAIN s}

\* str.startswith
StartsWith(s, prefix) ==
    /\ Len(prefix) <= Len(s)
    /\ SubSeq(s, 1, Len(prefix)) = prefix

LowerChar(c) ==
    CASE c = "W" -> "w"
      [] c = "L" -> "l"
      [] c = "D" -> "d"
      [] OTHER -> c

\* str.lower
Lower(s) == [i \in DOMAIN s |-> LowerChar(s[i])]

----------------------------------------------------------------------------
(* Paths *)

PROJECT_ROOT == <<>>
SCRIPT_DIR   == <<"generation_two">>

Join(d, rel) == d \o rel

gui_script     == Join(SCRIPT_DIR, <<"gui", "run_gui.py">>)
constants_file == Join(SCRIPT_DIR, <<"constants", "operatorRAW.json">>)
root_constants == Join(PROJECT_ROOT, <<"constants", "operatorRAW.json">>)
setup_py       == Join(SCRIPT_DIR, <<"setup.py">>)
root_setup_py  == Join(PROJECT_ROOT, <<"setup.py">>)
spec_file      == Join(PROJECT_ROOT, <<"generation_two.spec">>)
mac_spec_file  == Join(PROJECT_ROOT, <<"generation_two_macos.spec">>)
script_dist    == Join(SCRIPT_DIR, <<"dist">>)
root_dist      == Join(PROJECT_ROOT, <<"dist">>)
script_build   == Join(SCRIPT_DIR, <<"build">>)
root_build     == Join(PROJECT_ROOT, <<"build">>)
exe_path       == Join(root_dist, <<"generation-two.exe">>)
deb_dist_dir   == Join(root_dist, <<"deb_dist">>)
app_bundle_dir == Join(root_dist, <<"GenerationTwo">>)
contents_dir   == Join(app_bundle_dir, <<"Contents">>)
app_path       == Join(root_dist, <<"GenerationTwo.app">>)

ExeNames == {"generation-two.exe"}
DebNames == {"python3-generation-two_1.0.0-1_all.deb", "old.deb"}
DmgNames == {"GenerationTwo.dmg"}
UnderscoreTars == {"generation_two-1.0.0.tar.gz"}
HyphenTars     == {"generation-two-1.0.0.tar.gz"}
BuiltDeb == "python3-generation-two_1.0.0-1_all.deb"
BuiltTar == "generation-two-1.0.0.tar.gz"

Name(p) == p[Len(p)]

IsUnder(d, p) == Len(p) > Len(d) /\ SubSeq(p, 1, Len(d)) = d

Parents(p) == {SubSeq(p, 1, k) : k \in 1..(Len(p) - 1)}

Close(S) == S \cup UNION {Parents(p) : p \in S}

\* Path.exists
Exists(f, p) == p = PROJECT_ROOT \/ p \in f

\* Path.mkdir(exist_ok=True, parents=True)
Mkdir(f, d) == f \cup Parents(d) \cup {d}

\* shutil.rmtree
Rmtree(f, d) == {p \in f : p # d /\ ~IsUnder(d, p)}

\* Path.write_text, shutil.copy2 onto a path whose parent exists
WriteFile(f, p) == f \cup {p}

\* Path.unlink
Unlink(f, p) == f \ {p}

\* Path.glob(pattern): direct children whose name matches
Glob(f, d, names) == {p \in f : Len(p) = Len(d) + 1 /\ IsUnder(d, p) /\ Name(p) \in names}

\* Path.rglob(pattern): descendants whose name matches
Rglob(f, d, names) == {p \in f : IsUnder(d, p) /\ Name(p) \in names}

\* Path.rename of a directory: the whole subtree moves
RenameTree(f, src, dst) ==
    Rmtree(Rmtree(f, dst), src) \cup {dst}
        \cup {Join(dst, SubSeq(p, Len(src) + 1, Len(p))) : p \in {q \in f : IsUnder(src, q)}}

\* os.rename where it refuses an existing target
OsRename(f, src, dst) ==
    IF dst \in f /\ dst # src
      THEN [fs |-> f, err |-> "FileExistsError"]
      ELSE [fs |-> (f \ {src}) \cup {dst}, err |-> "none"]

\* shutil.move(src, dst) of a file onto a file path: os.rename, and where
\* rename refuses an existing target, copy2 over it and unlink the source;
\* an existing target file is replaced either way
ShutilMove(f, src, dst) == [fs |-> (f \ {src}) \cup {dst}, err |-> "none"]

----------------------------------------------------------------------------
(* run_command and the external tools *)

Builders == {"exe", "deb", "dmg"}

ExitCode(outcome) == IF outcome = "fail" THEN 1 ELSE 0

\* subprocess.run(cmd, check=check): a non-zero exit raises
\* CalledProcessError when check is set; otherwise the result is returned
run_command(check, rc) == [raised |-> check /\ rc # 0, result |-> (rc = 0)]

Deposits(outcome) == outcome \notin {"empty", "fail"}

Invoke(cmd, check, outcome) ==
    /\ invoked' = TRUE
    /\ last' = [cmd |-> cmd, check |-> check, rc |-> ExitCode(outcome)]
    /\ toolsOk' = (toolsOk /\ Deposits(outcome))

NoCommand == [cmd |-> "none", check |-> TRUE, rc |-> 0]

\* a step without run_command; written after the conjunct that sets pc'
NoInvoke ==
    /\ UNCHANGED <<invoked, toolsOk>>
    /\ last' = IF pc' = "idle" THEN NoCommand ELSE last

Raise(e) ==
    /\ mpc' = "aborted"
    /\ pc' = "idle"
    /\ err' = e

Goto(next) ==
    /\ pc' = next
    /\ UNCHANGED <<mpc, err>>

Entry(b) ==
    CASE b = "exe" -> "exe_import"
      [] b = "deb" -> "deb_install"
      [] b = "dmg" -> "mac_guard"

Call(b) ==
    /\ pc' = Entry(b)
    /\ calls' = [calls EXCEPT ![b] = @ + 1]
    /\ strategies' = <<>>
    /\ cleanup_setup' = FALSE
    /\ py2dsc_deb_cmd' = FALSE

NoCall == UNCHANGED <<pc, calls, strategies, cleanup_setup, py2dsc_deb_cmd>>

Env == <<platform, argv, run, dirtyStart>>
DebLocals == <<strategies, cleanup_setup, py2dsc_deb_cmd>>

----------------------------------------------------------------------------
(* main() *)

CleanOne(f, d) == IF Exists(f, d) THEN Rmtree(f, d) ELSE f

\* the clean loop over the script-local directories only
CleanScriptLocalBuilds(f) ==
    Mkdir(CleanOne(CleanOne(f, script_dist), script_build), script_dist)

\* the clean loop followed by the re-creation of SCRIPT_DIR/dist
CleanPreviousBuilds(f) ==
    Mkdir(CleanOne(CleanOne(CleanOne(CleanOne(f, script_dist), root_dist),
                            script_build), root_build), script_dist)

StaleOutput(f) ==
    \/ Exists(f, root_dist)
    \/ Exists(f, script_build)
    \/ Exists(f, root_build)
    \/ \E p \in f : IsUnder(script_dist, p)

main_clean ==
    /\ mpc = "start" /\ pc = "idle"
    /\ fs' = CleanPreviousBuilds(fs)
    /\ mpc' = "detect"
    /\ UNCHANGED <<Env, pc, err, calls, invoked, last, toolsOk, DebLocals, out>>

HostBuilder(plat) ==
    IF StartsWith(Lower(plat), <<"w", "i", "n">>) THEN "exe"
    ELSE IF StartsWith(Lower(plat), LINUX) THEN "deb"
    ELSE IF Lower(plat) = DARWIN THEN "dmg"
    ELSE "none"

main_detect ==
    /\ mpc = "detect" /\ pc = "idle"
    /\ IF HostBuilder(platform) \in Builders
         THEN Call(HostBuilder(platform)) /\ UNCHANGED out
         ELSE NoCall /\ out' = "[WARN] Unknown platform"
    /\ mpc' = "flag_exe"
    /\ UNCHANGED <<Env, fs, err, invoked, last, toolsOk>>

HasArgs == Len(argv) > 1

\* --exe honoured only when the host dispatch has not already built the exe
WantsExeOnce == HasArgs /\ "--exe" \in Range(argv) /\ calls["exe"] = 0

WantsExe == HasArgs /\ "--exe" \in Range(argv)
WantsDeb == HasArgs /\ "--deb" \in Range(argv)
WantsDmg == HasArgs /\ "--dmg" \in Range(argv)
WantsAll == HasArgs /\ "--all" \in Range(argv)
WantsAllDmg == WantsAll /\ platform = DARWIN

\* one "if <flag> in sys.argv: build_...()" statement
Dispatch(wanted, b, next) ==
    /\ IF wanted THEN Call(b) ELSE NoCall
    /\ mpc' = next
    /\ UNCHANGED <<Env, fs, err, invoked, last, toolsOk, out>>

main_flag_exe ==
    /\ mpc = "flag_exe" /\ pc = "idle"
    /\ Dispatch(WantsExe, "exe", "flag_deb")

main_flag_deb ==
    /\ mpc = "flag_deb" /\ pc = "idle"
    /\ Dispatch(WantsDeb, "deb", "flag_dmg")

main_flag_dmg ==
    /\ mpc = "flag_dmg" /\ pc = "idle"
    /\ Dispatch(WantsDmg, "dmg", "all_exe")

main_all_exe ==
    /\ mpc = "all_exe" /\ pc = "idle"
    /\ Dispatch(WantsAll, "exe", "all_deb")

main_all_deb ==
    /\ mpc = "all_deb" /\ pc = "idle"
    /\ Dispatch(WantsAll, "deb", "all_dmg")

main_all_dmg ==
    /\ mpc = "all_dmg" /\ pc = "idle"
    /\ Dispatch(WantsAllDmg, "dmg", "complete")

main_complete ==
    /\ mpc = "complete" /\ pc = "idle"
    /\ mpc' = "done"
    /\ out' = "Build complete!"
    /\ UNCHANGED <<Env, fs, pc, err, calls, invoked, last, toolsOk, DebLocals>>

NoCalls == [b \in Builders |-> 0]
\* the script is started again on the filesystem the previous run left
main_again ==
    /\ mpc \in {"done", "aborted"} /\ pc = "idle"
    /\ run < MaxRuns
    /\ run' = run + 1
    /\ dirtyStart' = StaleOutput(fs)
    /\ mpc' = "start"
    /\ err' = "none"
    /\ calls' = NoCalls
    /\ invoked' = FALSE
    /\ last' = NoCommand
    /\ toolsOk' = TRUE
    /\ strategies' = <<>>
    /\ cleanup_setup' = FALSE
    /\ py2dsc_deb_cmd' = FALSE
    /\ out' = "Generation Two Build Script"
    /\ UNCHANGED <<platform, argv, fs, pc>>

----------------------------------------------------------------------------
(* Steps shared by build_windows_exe and build_macos_dmg *)

\* try: import PyInstaller / except ImportError: pip install pyinstaller
EnsurePyInstaller(next) ==
    \E importable \in BOOLEAN :
        IF importable
          THEN Goto(next) /\ NoInvoke /\ UNCHANGED out
          ELSE \E o \in {"ok", "fail"} :
                /\ Invoke("pip install pyinstaller", TRUE, o)
                /\ out' = "Installing PyInstaller..."
                /\ IF run_command(TRUE, ExitCode(o)).raised
                     THEN Raise("CalledProcessError")
                     ELSE Goto(next)

\* the resolver without the fallback location
ResolveInputsPrimaryOnly(f) ==
    IF ~Exists(f, constants_file) \/ ~Exists(f, gui_script)
      THEN [fs |-> f, err |-> "FileNotFoundError", copied |-> FALSE]
      ELSE [fs |-> f, err |-> "none", copied |-> FALSE]

\* "Verify files exist": the resource file first, then the entry point
ResolveInputs(f) ==
    LET copy == ~Exists(f, constants_file) /\ Exists(f, root_constants)
        f1 == IF copy
                THEN WriteFile(Mkdir(f, Join(SCRIPT_DIR, <<"constants">>)), constants_file)
                ELSE f
    IN  IF ~Exists(f, constants_file) /\ ~Exists(f, root_constants)
          THEN [fs |-> f, err |-> "FileNotFoundError", copied |-> FALSE]
        ELSE IF ~Exists(f1, gui_script)
          THEN [fs |-> f1, err |-> "FileNotFoundError", copied |-> copy]
        ELSE [fs |-> f1, err |-> "none", copied |-> copy]

Resolve(next, okmsg) ==
    LET r == ResolveInputs(fs)
    IN  /\ fs' = r.fs
        /\ IF r.err # "none"
             THEN Raise(r.err)
                  /\ out' = IF r.copied THEN "[OK] Copied constants file from root" ELSE out
             ELSE Goto(next)
                  /\ out' = IF okmsg # "" THEN okmsg
                            ELSE IF r.copied THEN "[OK] Copied constants file from root"
                            ELSE out

----------------------------------------------------------------------------
(* build_windows_exe *)

build_windows_exe_import ==
    /\ pc = "exe_import"
    /\ EnsurePyInstaller("exe_resolve")
    /\ UNCHANGED <<Env, fs, calls, DebLocals>>

build_windows_exe_resolve ==
    /\ pc = "exe_resolve"
    /\ Resolve("exe_spec", "")
    /\ NoInvoke
    /\ UNCHANGED <<Env, calls, DebLocals>>

build_windows_exe_spec ==
    /\ pc = "exe_spec"
    /\ fs' = Mkdir(WriteFile(fs, spec_file), script_dist)
    /\ Goto("exe_build")
    /\ NoInvoke
    /\ UNCHANGED <<Env, calls, DebLocals, out>>

\* what PyInstaller leaves in PROJECT_ROOT for the one-file recipe
PyInstallerExe(f, o) ==
    LET dirs == Mkdir(Mkdir(f, root_dist), root_build)
    IN  IF o = "ok" THEN WriteFile(dirs, exe_path)
        ELSE IF o = "empty" THEN dirs
        ELSE f

build_windows_exe_build ==
    /\ pc = "exe_build"
    /\ \E o \in {"ok", "empty", "fail"} :
        /\ Invoke("PyInstaller", TRUE, o)
        /\ fs' = PyInstallerExe(fs, o)
        /\ IF run_command(TRUE, ExitCode(o)).raised
             THEN Raise("CalledProcessError")
             ELSE Goto("exe_move")
    /\ UNCHANGED <<Env, calls, DebLocals, out>>

ExeTargetPath == Join(SCRIPT_DIR, <<"dist", "generation-two.exe">>)

build_windows_exe_move ==
    /\ pc = "exe_move"
    /\ IF Exists(fs, exe_path)
         THEN LET m == ShutilMove(Mkdir(fs, script_dist), exe_path, ExeTargetPath)
              IN  /\ fs' = m.fs
                  /\ IF m.err # "none"
                       THEN Raise(m.err) /\ UNCHANGED out
                       ELSE Goto("idle") /\ out' = "[OK] Windows EXE built"
         ELSE /\ fs' = fs
              /\ out' = "[ERROR] EXE not found in expected location"
              /\ Goto("idle")
    /\ NoInvoke
    /\ UNCHANGED <<Env, calls, DebLocals>>

----------------------------------------------------------------------------
(* build_linux_deb *)

build_linux_deb_install ==
    /\ pc = "deb_install"
    /\ \E o \in {"ok", "fail"} :
        /\ Invoke("pip install stdeb", FALSE, o)
        /\ IF run_command(FALSE, ExitCode(o)).raised
             THEN Raise("CalledProcessError")
             ELSE Goto("deb_setup")
    /\ out' = "Installing build dependencies..."
    /\ UNCHANGED <<Env, fs, calls, DebLocals>>

build_linux_deb_setup ==
    /\ pc = "deb_setup"
    /\ IF ~Exists(fs, setup_py)
         THEN Raise("FileNotFoundError") /\ UNCHANGED <<fs, cleanup_setup, out>>
         ELSE /\ Goto("deb_sdist")
              /\ IF ~Exists(fs, root_setup_py)
                   THEN /\ fs' = WriteFile(fs, root_setup_py)
                        /\ out' = "[OK] Copied setup.py to project root"
                        /\ cleanup_setup' = TRUE
                   ELSE /\ cleanup_setup' = FALSE
                        /\ UNCHANGED <<fs, out>>
    /\ NoInvoke
    /\ UNCHANGED <<Env, calls, strategies, py2dsc_deb_cmd>>

\* what setup.py sdist leaves in PROJECT_ROOT/dist
Sdist(f, o) ==
    IF o = "ok" THEN WriteFile(Mkdir(f, root_dist), Join(root_dist, <<BuiltTar>>)) ELSE f

\* the finally clause around the sdist call
CleanupSetup(f) ==
    IF cleanup_setup /\ Exists(f, root_setup_py) THEN Unlink(f, root_setup_py) ELSE f

build_linux_deb_sdist ==
    /\ pc = "deb_sdist"
    /\ \E o \in {"ok", "empty", "fail"} :
        /\ Invoke("setup.py sdist", TRUE, o)
        /\ fs' = CleanupSetup(Sdist(fs, o))
        /\ IF run_command(TRUE, ExitCode(o)).raised
             THEN Raise("CalledProcessError")
             ELSE Goto("deb_find")
    /\ out' = IF cleanup_setup THEN "[OK] Cleaned up temporary setup.py" ELSE out
    /\ cleanup_setup' = FALSE
    /\ UNCHANGED <<Env, calls, strategies, py2dsc_deb_cmd>>

tar_files(f) == Glob(f, root_dist, UnderscoreTars) \cup Glob(f, root_dist, HyphenTars)

build_linux_deb_find ==
    /\ pc = "deb_find"
    /\ IF tar_files(fs) = {}
         THEN Goto("idle") /\ out' = "[ERROR] Source distribution not found"
         ELSE Goto("deb_which") /\ out' = "[OK] Found source distribution"
    /\ NoInvoke
    /\ UNCHANGED <<Env, fs, calls, DebLocals>>

build_linux_deb_which ==
    /\ pc = "deb_which"
    /\ \E found \in BOOLEAN :
        /\ py2dsc_deb_cmd' = found
        /\ IF found
             THEN Goto("deb_cmd") /\ out' = "Trying py2dsc-deb command..."
             ELSE Goto("deb_module")
                  /\ out' = "[WARN] py2dsc-deb not in PATH, trying Python module..."
    /\ NoInvoke
    /\ UNCHANGED <<Env, fs, calls, strategies, cleanup_setup>>

\* what the stdeb conversion leaves in its working directory PROJECT_ROOT/dist
Py2dscDeb(f, o) ==
    IF o = "ok" THEN WriteFile(Mkdir(f, deb_dist_dir), Join(deb_dist_dir, <<BuiltDeb>>))
    ELSE IF o = "empty" THEN Mkdir(f, deb_dist_dir)
    ELSE f

\* where control goes after the command-line attempt: the fallbacks are the
\* else branch of the test that selected the command, so they are skipped
AfterCommand(result) == "deb_search"

build_linux_deb_cmd ==
    /\ pc = "deb_cmd"
    /\ \E o \in {"ok", "empty", "fail"} :
        LET result == run_command(FALSE, ExitCode(o)).result
        IN  /\ Invoke("py2dsc-deb", FALSE, o)
            /\ fs' = Py2dscDeb(fs, o)
            /\ py2dsc_deb_cmd' = IF result THEN py2dsc_deb_cmd ELSE FALSE
            /\ out' = IF result THEN out
                      ELSE "[WARN] py2dsc-deb command failed, trying fallback methods..."
            /\ Goto(AfterCommand(result))
    /\ strategies' = Append(strategies, "command")
    /\ UNCHANGED <<Env, calls, cleanup_setup>>

\* the module failure swallowed without the last resort
AfterModuleSwallowed(raised) == "deb_search"

\* try/except Exception around the module invocation
AfterModule(raised) == IF raised THEN "deb_manual" ELSE "deb_search"

build_linux_deb_module ==
    /\ pc = "deb_module"
    /\ \E o \in {"ok", "empty", "fail"} :
        LET raised == run_command(TRUE, ExitCode(o)).raised
        IN  /\ Invoke("python -m stdeb.command.py2dsc_deb", TRUE, o)
            /\ fs' = Py2dscDeb(fs, o)
            /\ out' = IF raised THEN "[WARN] Module approach failed" ELSE out
            /\ Goto(AfterModule(raised))
    /\ strategies' = Append(strategies, "module")
    /\ UNCHANGED <<Env, calls, cleanup_setup, py2dsc_deb_cmd>>

\* the package inside the temporary directory of the manual path
ExtractedDeb == <<"tmp", "deb_dist", BuiltDeb>>

ManualOutcomes ==
    {"ok", "empty", "ImportError", "no_setup", "main_raises", "no_deb_dist"}

ManualError(o) ==
    CASE o = "ImportError" -> "ImportError"
      [] o = "no_setup" -> "FileNotFoundError"
      [] o = "main_raises" -> "Exception"
      [] o = "no_deb_dist" -> "FileNotFoundError"
      [] OTHER -> "none"

\* the except branch: extract the archive, chdir, py2dsc_deb.main([]), move
\* the packages found in the extracted deb_dist into PROJECT_ROOT/dist
build_linux_deb_manual ==
    /\ pc = "deb_manual"
    /\ \E o \in ManualOutcomes :
        LET m == IF o = "ok"
                   THEN ShutilMove(fs \cup {ExtractedDeb}, ExtractedDeb, Join(root_dist, <<BuiltDeb>>))
                   ELSE [fs |-> fs, err |-> ManualError(o)]
        IN  /\ fs' = m.fs \ {ExtractedDeb}
            /\ IF m.err # "none" THEN Raise(m.err) ELSE Goto("deb_search")
            /\ out' = IF o = "ok" /\ m.err = "none" THEN "[OK] Moved DEB"
                      ELSE "Trying direct API call..."
            /\ strategies' = IF m.err # "none" THEN <<>>
                              ELSE Append(strategies, "manual")
    /\ NoInvoke
    /\ UNCHANGED <<Env, calls, cleanup_setup, py2dsc_deb_cmd>>

deb_files(f) ==
    LET in_deb_dist == IF Exists(f, deb_dist_dir)
                         THEN Rglob(f, deb_dist_dir, DebNames) ELSE {}
    IN  IF in_deb_dist = {} THEN Rglob(f, PROJECT_ROOT, DebNames) ELSE in_deb_dist

DebTargetPath(deb_file) == Join(SCRIPT_DIR, <<"dist", Name(deb_file)>>)

\* deb_files[0]: the order of rglob is the directory order, so any match
build_linux_deb_relocate ==
    /\ pc = "deb_search"
    /\ IF deb_files(fs) # {}
         THEN \E deb_file \in deb_files(fs) :
                LET m == ShutilMove(Mkdir(fs, script_dist), deb_file, DebTargetPath(deb_file))
                IN  /\ fs' = m.fs
                    /\ IF m.err # "none"
                         THEN Raise(m.err) /\ UNCHANGED out
                         ELSE Goto("idle") /\ out' = "[OK] Linux DEB built"
         ELSE /\ fs' = fs
              /\ out' = "[ERROR] DEB file not found"
              /\ Goto("idle")
    /\ NoInvoke
    /\ strategies' = <<>>
    /\ cleanup_setup' = FALSE
    /\ py2dsc_deb_cmd' = FALSE
    /\ UNCHANGED <<Env, calls>>

----------------------------------------------------------------------------
(* build_macos_dmg *)

\* the guard letting every Unix-like host through
NotMacOSOrLinux == platform \notin {DARWIN, LINUX, CYGWIN}

NotMacOS == platform # DARWIN

build_macos_dmg_guard ==
    /\ pc = "mac_guard"
    /\ IF NotMacOS
         THEN Goto("idle") /\ out' = "[WARN] DMG can only be built on macOS"
         ELSE Goto("mac_import") /\ UNCHANGED out
    /\ NoInvoke
    /\ UNCHANGED <<Env, fs, calls, DebLocals>>

build_macos_dmg_import ==
    /\ pc = "mac_import"
    /\ EnsurePyInstaller("mac_resolve")
    /\ UNCHANGED <<Env, fs, calls, DebLocals>>

build_macos_dmg_resolve ==
    /\ pc = "mac_resolve"
    /\ Resolve("mac_spec", "[OK] Found constants file")
    /\ NoInvoke
    /\ UNCHANGED <<Env, calls, DebLocals>>

build_macos_dmg_spec ==
    /\ pc = "mac_spec"
    /\ fs' = CleanOne(WriteFile(fs, mac_spec_file), app_bundle_dir)
    /\ out' = "[OK] Created spec file"
    /\ Goto("mac_build")
    /\ NoInvoke
    /\ UNCHANGED <<Env, calls, DebLocals>>

\* what PyInstaller leaves in PROJECT_ROOT/dist for the bundle recipe:
\* a GenerationTwo directory with or without Contents/, a GenerationTwo.app,
\* or nothing
BundleOutcomes == {"bundle_dir", "plain_dir", "app", "empty", "fail"}

PyInstallerApp(f, o) ==
    LET dirs == Mkdir(Mkdir(f, root_dist), root_build)
    IN  CASE o = "bundle_dir" -> Mkdir(dirs, contents_dir)
          [] o = "plain_dir" -> Mkdir(dirs, app_bundle_dir)
          [] o = "app" -> Mkdir(dirs, Join(app_path, <<"Contents">>))
          [] o = "empty" -> dirs
          [] OTHER -> f

build_macos_dmg_build ==
    /\ pc = "mac_build"
    /\ \E o \in BundleOutcomes :
        /\ Invoke("PyInstaller", TRUE, o)
        /\ fs' = PyInstallerApp(fs, o)
        /\ IF run_command(TRUE, ExitCode(o)).raised
             THEN Raise("CalledProcessError")
             ELSE Goto("mac_bundle")
    /\ out' = "[OK] Building with spec file"
    /\ UNCHANGED <<Env, calls, DebLocals>>

build_macos_dmg_bundle ==
    /\ pc = "mac_bundle"
    /\ IF Exists(fs, app_bundle_dir)
         THEN IF Exists(fs, contents_dir)
                THEN /\ fs' = RenameTree(CleanOne(fs, app_path), app_bundle_dir, app_path)
                     /\ out' = "[OK] Found app bundle"
                     /\ Goto("mac_dmg")
                ELSE /\ fs' = fs
                     /\ out' = "[ERROR] GenerationTwo directory exists but is not a valid app bundle"
                     /\ Raise("FileNotFoundError")
         ELSE IF ~Exists(fs, app_path)
                THEN /\ fs' = fs
                     /\ out' = "[ERROR] App bundle not found"
                     /\ Raise("FileNotFoundError")
                ELSE /\ fs' = fs
                     /\ out' = "[OK] Found app bundle"
                     /\ Goto("mac_dmg")
    /\ NoInvoke
    /\ UNCHANGED <<Env, calls, DebLocals>>

\* dmg_path.parent.mkdir(...): the name dmg_path is bound nowhere in the
\* module, so evaluating it raises NameError; the create-dmg call and the
\* messages after it are never reached
build_macos_dmg_dmg ==
    /\ pc = "mac_dmg"
    /\ Raise("NameError")
    /\ NoInvoke
    /\ UNCHANGED <<Env, fs, calls, DebLocals, out>>

----------------------------------------------------------------------------
(* Initial states and the next-state relation *)

ArgSeqs == UNION {[1..k -> Flags] : k \in 0..MaxArgs}

InputFiles == {gui_script, constants_file, root_constants, setup_py, root_setup_py}

StaleFiles == {Join(script_dist, <<"old.deb">>), exe_path,
               Join(script_build, <<"Analysis.toc">>),
               Join(root_build, <<"Analysis.toc">>)}

Init ==
    /\ platform \in Platforms
    /\ argv \in {<<"build.py">> \o a : a \in ArgSeqs}
    /\ fs \in {Close(i \cup s) : i \in SUBSET InputFiles, s \in SUBSET StaleFiles}
    /\ run = 1
    /\ mpc = "start"
    /\ pc = "idle"
    /\ err = "none"
    /\ calls = NoCalls
    /\ invoked = FALSE
    /\ last = NoCommand
    /\ toolsOk = TRUE
    /\ strategies = <<>>
    /\ cleanup_setup = FALSE
    /\ py2dsc_deb_cmd = FALSE
    /\ out = "Generation Two Build Script"
    /\ dirtyStart = StaleOutput(fs)

Next ==
    \/ main_clean
    \/ main_detect
    \/ main_flag_exe
    \/ main_flag_deb
    \/ main_flag_dmg
    \/ main_all_exe
    \/ main_all_deb
    \/ main_all_dmg
    \/ main_complete
    \/ main_again
    \/ build_windows_exe_import
    \/ build_windows_exe_resolve
    \/ build_windows_exe_spec
    \/ build_windows_exe_build
    \/ build_windows_exe_move
    \/ build_linux_deb_install
    \/ build_linux_deb_setup
    \/ build_linux_deb_sdist
    \/ build_linux_deb_find
    \/ build_linux_deb_which
    \/ build_linux_deb_cmd
    \/ build_linux_deb_module
    \/ build_linux_deb_manual
    \/ build_linux_deb_relocate
    \/ build_macos_dmg_guard
    \/ build_macos_dmg_import
    \/ build_macos_dmg_resolve
    \/ build_macos_dmg_spec
    \/ build_macos_dmg_build
    \/ build_macos_dmg_bundle
    \/ build_macos_dmg_dmg

Spec == Init /\ [][Next]_vars

----------------------------------------------------------------------------
(* Properties *)

InputsAbsent ==
    /\ ~Exists(fs, gui_script)
    /\ ~Exists(fs, constants_file)
    /\ ~Exists(fs, root_constants)

\* C1: whatever the host platform and the flags, when the entry point and
\* the resource file (at both locations) are absent, main() aborts and no
\* external command has been started before the abort.
C1_AbortsBeforeAnyTool == InputsAbsent => (~invoked /\ mpc # "done")

Artifacts(names) == Glob(fs, script_dist, names)

\* C2: with --all on a host that matches a builder and every external tool
\* succeeding, a repeated relocation never fails on the existing target and
\* when main() has returned SCRIPT_DIR/dist holds at most one .exe, one .deb
\* and one .dmg.
C2_RepeatedBuildSafe ==
    (WantsAll /\ HostBuilder(platform) \in Builders /\ toolsOk) =>
        /\ err \notin {"FileExistsError", "shutil.Error"}
        /\ mpc = "done" =>
            /\ Cardinality(Artifacts(ExeNames)) <= 1
            /\ Cardinality(Artifacts(DebNames)) <= 1
            /\ Cardinality(Artifacts(DmgNames)) <= 1

C2_Witness ==
    /\ mpc = "done" /\ WantsAll /\ toolsOk
    /\ platform = WIN32
    /\ calls["exe"] = 2 /\ calls["deb"] = 1
    /\ Artifacts(ExeNames) = {ExeTargetPath}
    /\ Cardinality(Artifacts(DebNames)) = 1

Rank(strategy) ==
    CASE strategy = "command" -> 1
      [] strategy = "module" -> 2
      [] strategy = "manual" -> 3

InOrder(s) == \A i, j \in DOMAIN s : i < j => Rank(s[i]) < Rank(s[j])

\* C3: in build_linux_deb, with the archive found, a missing py2dsc-deb
\* command leads to the module invocation, a failed module invocation leads
\* to the manual path instead of an abort, and the strategies are attempted
\* only in the order command, module, manual.
C3_FallThrough ==
    [][ /\ (pc = "deb_which" /\ pc' # "deb_which" /\ ~py2dsc_deb_cmd') =>
              (pc' = "deb_module" /\ mpc' # "aborted")
        /\ (pc = "deb_module" /\ pc' # "deb_module") =>
              /\ strategies' = Append(strategies, "module")
              /\ last'.rc # 0 => (pc' = "deb_manual" /\ mpc' # "aborted")
        /\ (pc = "deb_manual" /\ pc' = "deb_search") =>
              strategies' = Append(strategies, "manual")
        /\ InOrder(strategies') ]_vars

C3_Witness ==
    /\ pc = "deb_search"
    /\ strategies = <<"module", "manual">>
    /\ Exists(fs, Join(root_dist, <<BuiltDeb>>))

\* C4: on macOS, once the freezing tool has exited zero and the bundle is at
\* PROJECT_ROOT/dist/GenerationTwo.app, build_macos_dmg raises nothing and
\* the bundle stays in place, whether create-dmg succeeds or fails.
C4_DmgFailureNonFatal ==
    [][ (pc = "mac_dmg" /\ platform = DARWIN /\ Exists(fs, app_path)) =>
            (mpc' # "aborted" /\ Exists(fs', app_path)) ]_vars

RequiredCommands == {"PyInstaller", "setup.py sdist"}
TolerantCommands ==
    {"pip install pyinstaller", "pip install stdeb", "py2dsc-deb", "create-dmg"}

\* C5: a non-zero exit of PyInstaller or of setup.py sdist aborts main();
\* a non-zero exit of a dependency installation (pip install pyinstaller,
\* pip install stdeb), of the py2dsc-deb command or of create-dmg never does.
C5_FailureClassification ==
    /\ (last.rc # 0 /\ last.cmd \in RequiredCommands) =>
          (mpc = "aborted" /\ err = "CalledProcessError")
    /\ (last.rc # 0 /\ last.cmd \in TolerantCommands) => mpc # "aborted"

FlagSet == Range(SubSeq(argv, 2, Len(argv)))

OwnFlag(b) ==
    CASE b = "exe" -> "--exe"
      [] b = "deb" -> "--deb"
      [] b = "dmg" -> "--dmg"

HostIs(b) ==
    CASE b = "exe" -> StartsWith(platform, <<"w", "i", "n">>)
      [] b = "deb" -> StartsWith(platform, <<"l", "i", "n", "u", "x">>)
      [] b = "dmg" -> platform = <<"d", "a", "r", "w", "i", "n">>

Expected(b) ==
    (IF HostIs(b) THEN 1 ELSE 0)
    + (IF OwnFlag(b) \in FlagSet THEN 1 ELSE 0)
    + (IF "--all" \in FlagSet /\ (b = "dmg" => HostIs("dmg")) THEN 1 ELSE 0)

\* C6: when main() has returned, each build procedure has been invoked once
\* for a matching host, once for its own flag and once for --all (the macOS
\* one for --all only on darwin), whatever the order of the flags; without
\* flags that is exactly one procedure on a recognised host and none
\* otherwise.
C6_DispatchCount ==
    mpc = "done" =>
        /\ \A b \in Builders : calls[b] = Expected(b)
        /\ FlagSet = {} =>
              calls["exe"] + calls["deb"] + calls["dmg"]
                  = (IF \E b \in Builders : HostIs(b) THEN 1 ELSE 0)

C6_Witness ==
    /\ mpc = "done"
    /\ calls["exe"] = 3
    /\ calls["deb"] = 1
    /\ calls["dmg"] = 0

\* C7: in build_windows_exe and build_macos_dmg, with the entry point
\* present and operatorRAW.json only at PROJECT_ROOT/constants, path
\* resolution copies the file to SCRIPT_DIR/constants, keeps the original,
\* raises nothing and goes on to write the recipe file.
C7_FallbackCopied ==
    [][ (/\ pc \in {"exe_resolve", "mac_resolve"}
         /\ Exists(fs, gui_script)
         /\ ~Exists(fs, constants_file)
         /\ Exists(fs, root_constants)) =>
            /\ Exists(fs', constants_file)
            /\ Exists(fs', root_constants)
            /\ mpc' # "aborted" /\ err' = "none"
            /\ pc' = (IF pc = "exe_resolve" THEN "exe_spec" ELSE "mac_spec") ]_vars

C7_Witness ==
    /\ pc = "exe_spec"
    /\ out = "[OK] Copied constants file from root"
    /\ Exists(fs, constants_file)
    /\ Exists(fs, root_constants)

\* C8: on a host other than darwin a call of build_macos_dmg prints the
\* warning and returns, with the filesystem unchanged and no external
\* command started.
C8_NonMacNoEffect ==
    [][ (pc = "mac_guard" /\ platform # DARWIN) =>
            /\ fs' = fs
            /\ invoked' = invoked
            /\ pc' = "idle" /\ mpc' # "aborted" /\ err' = "none"
            /\ out' = "[WARN] DMG can only be built on macOS" ]_vars

C8_Witness ==
    /\ platform = CYGWIN
    /\ pc = "idle" /\ mpc = "all_exe"
    /\ calls["dmg"] = 1
    /\ ~invoked
    /\ out = "[WARN] DMG can only be built on macOS"
    /\ ~Exists(fs, mac_spec_file)

CleanState(f) ==
    /\ ~Exists(f, root_dist)
    /\ ~Exists(f, script_build)
    /\ ~Exists(f, root_build)
    /\ Exists(f, script_dist)
    /\ ~\E p \in f : IsUnder(script_dist, p)

\* C9: right after the clean step of main(), in the first run and in the
\* next one, PROJECT_ROOT/dist, SCRIPT_DIR/build and PROJECT_ROOT/build do
\* not exist and SCRIPT_DIR/dist exists and is empty; no build procedure
\* has been called before that point.
C9_CleanFirst ==
    /\ mpc = "start" => (pc = "idle" /\ calls = NoCalls)
    /\ mpc = "detect" => (CleanState(fs) /\ pc = "idle" /\ calls = NoCalls)

C9_Witness ==
    /\ run = 2
    /\ mpc = "detect"
    /\ dirtyStart
    /\ CleanState(fs)

\* C10: in build_linux_deb, when py2dsc-deb is on the search path and exits
\* non-zero, the module invocation (and after it the manual path) is
\* attempted before the search for the .deb file.
C10_CommandFailureFallsBack ==
    [][ (pc = "deb_cmd" /\ pc' # "deb_cmd" /\ last'.rc # 0) => pc' = "deb_module" ]_vars

\* the packages the conversion strategies deposit: all of them write below
\* PROJECT_ROOT/dist (deb_dist for the command and the module, dist itself
\* for the manual path)
ConversionOutput(f) == Rglob(f, root_dist, DebNames)

\* C11: build_linux_deb reports "[OK] Linux DEB built" only for a package
\* its own conversion step produced: when no package lies below
\* PROJECT_ROOT/dist at the time of the search, a .deb found elsewhere in
\* the project (such as the one an earlier call relocated into
\* SCRIPT_DIR/dist) is not reported as built.
C11_OnlyFreshDebReported ==
    [][ (pc = "deb_search" /\ ConversionOutput(fs) = {}) =>
            out' # "[OK] Linux DEB built" ]_vars

\* C12: when path resolution in build_windows_exe or build_macos_dmg fails
\* with a missing-input error, it has changed nothing on the filesystem: no
\* SCRIPT_DIR/constants directory and no copy of operatorRAW.json has been
\* created by the time the error is raised.
C12_FailedResolveNoEffect ==
    [][ (pc \in {"exe_resolve", "mac_resolve"} /\ err' = "FileNotFoundError") =>
            fs' = fs ]_vars

====
